---- MODULE Spec2Model ----
(***************************************************************************)
(* Model of src/bot.py: a chat bot that extracts addresses from free text, *)
(* builds a route URL, asks a directions provider for the distance, logs   *)
(* the distance per conversation and reports sums over periods.            *)
(*                                                                         *)
(* Text is a sequence of characters.  A character is a one-element string; *)
(* a multi-character token the code treats as a unit (a city name of       *)
(* CITY_HINTS, a street designator of street_re, a command word, a date    *)
(* literal) is one symbol of the alphabet:                                 *)
(*   "K" "B"  city names as listed (Київ, Буча); "k" "b" their lower case  *)
(*   "v"      a street designator (вул.); "V" its upper case               *)
(*   "1"      a digit; "a" any other letter; "," " " "\n" "/" ":" "%" as is*)
(*   "week" "period" "setbase" "report" "foo"  command words               *)
(*   "D4", "D11", ...  the date literal YYYY-MM-DD of epoch day 4, 11, ... *)
(* Distances are integers in units of 0.1 km (the code rounds to one       *)
(* decimal), so the failure sentinel -1 km is -10.                         *)
(***************************************************************************)
EXTENDS Integers, Sequences, FiniteSets, Bags, TLC

\* ------------------------------------------------------------------ bounds
\* Largest number of rows the routes table may reach in the model.
MaxRoutes == 2

\* ------------------------------------------------------------ text helpers
IsSpace(c) == c \in {" ", "\n"}

RECURSIVE LStrip(_)
LStrip(s) == IF s # <<>> /\ IsSpace(Head(s)) THEN LStrip(Tail(s)) ELSE s

RECURSIVE RStrip(_)
RStrip(s) ==
    IF s # <<>> /\ IsSpace(s[Len(s)]) THEN RStrip(SubSeq(s, 1, Len(s) - 1)) ELSE s

\* str.strip()
Strip(s) == RStrip(LStrip(s))

RECURSIVE SplitAcc(_, _, _)
SplitAcc(s, sep, cur) ==
    IF s = <<>> THEN <<cur>>
    ELSE IF Head(s) = sep THEN <<cur>> \o SplitAcc(Tail(s), sep, <<>>)
    ELSE SplitAcc(Tail(s), sep, Append(cur, Head(s)))

\* str.split(sep): every piece between separators, empty pieces kept
SplitOn(s, sep) == SplitAcc(s, sep, <<>>)

RECURSIVE WordsAcc(_, _)
WordsAcc(s, cur) ==
    IF s = <<>> THEN (IF cur = <<>> THEN <<>> ELSE <<cur>>)
    ELSE IF IsSpace(Head(s))
         THEN (IF cur = <<>> THEN <<>> ELSE <<cur>>) \o WordsAcc(Tail(s), <<>>)
         ELSE WordsAcc(Tail(s), Append(cur, Head(s)))

\* str.split(): the whitespace-separated words, no empty ones
Words(s) == WordsAcc(s, <<>>)

RECURSIVE FirstIndex(_, _, _)
FirstIndex(s, c, i) ==
    IF i > Len(s) THEN 0 ELSE IF s[i] = c THEN i ELSE FirstIndex(s, c, i + 1)

\* str.split(sep, 1): at most one split, at the first separator
SplitOnce(s, sep) ==
    LET i == FirstIndex(s, sep, 1)
    IN IF i = 0 THEN <<s>> ELSE <<SubSeq(s, 1, i - 1), SubSeq(s, i + 1, Len(s))>>

\* str.lower() on one symbol
Lower(c) ==
    CASE c = "K" -> "k"
      [] c = "B" -> "b"
      [] c = "V" -> "v"
      [] OTHER -> c

\* ------------------------------------------------------------------ config
CITY_HINTS == {"K", "B"}

DEFAULT_BASE_POINT == <<"a", " ", "v", " ", "1", ",", " ", "K">>

\* the suffix ", Київ"
DefaultCitySuffix == <<",", " ", "K">>

DateLiterals == {"D4", "D11", "D31"}

\* ------------------------------------------------------ address extraction
\* any(city.lower() in line.lower() for city in CITY_HINTS)
HasCity(line) ==
    \E i \in 1..Len(line) : \E city \in CITY_HINTS : Lower(line[i]) = Lower(city)

\* street_re.search(line), re.IGNORECASE
HasStreet(line) == \E i \in 1..Len(line) : Lower(line[i]) = "v"

\* re.search(r"\d", line): a digit, also the digits of a date literal
HasNumber(line) == \E i \in 1..Len(line) : line[i] = "1" \/ line[i] \in DateLiterals

\* lines = [l.strip() for l in text.split("\n") if l.strip()]
TextLines(text) ==
    LET raw == SplitOn(text, "\n")
        stripped == [i \in 1..Len(raw) |-> Strip(raw[i])]
    IN SelectSeq(stripped, LAMBDA l : l # <<>>)

Qualifies(line) == HasCity(line) \/ (HasStreet(line) /\ HasNumber(line))

\* the default city appended to every line
LineAddress_bad(line) == Strip(line) \o DefaultCitySuffix

\* one qualifying line to its address
LineAddress(line) ==
    LET addr == Strip(line)
    IN IF ~HasCity(addr) THEN addr \o DefaultCitySuffix ELSE addr

\* the addresses as collected, duplicates left in
Dedup_bad(addresses, seen) == addresses

\* result: each address once, at the place of its first occurrence
RECURSIVE Dedup(_, _)
Dedup(addresses, seen) ==
    IF addresses = <<>> THEN <<>>
    ELSE IF Head(addresses) \in seen THEN Dedup(Tail(addresses), seen)
    ELSE <<Head(addresses)>> \o Dedup(Tail(addresses), seen \cup {Head(addresses)})

extract_addresses(text) ==
    LET lines == TextLines(text)
        kept == SelectSeq(lines, Qualifies)
        addresses == [i \in 1..Len(kept) |-> LineAddress(kept[i])]
    IN Dedup(addresses, {})

\* ------------------------------------------------------------- URL builder
\* quote with its default safe="/": the slash stays as it is
EncodeChar_bad(c) ==
    CASE c = " " -> "%20"
      [] c = "\n" -> "%0A"
      [] c = "%" -> "%25"
      [] c = "," -> "%2C"
      [] c = ":" -> "%3A"
      [] c = "K" -> "%K"
      [] c = "k" -> "%k"
      [] c = "B" -> "%B"
      [] c = "b" -> "%b"
      [] c = "v" -> "%v."
      [] c = "V" -> "%V."
      [] OTHER -> c

\* urllib.parse.quote(point, safe=""): letters and digits stay, every other
\* character becomes a %XX escape (non-ASCII letters become escapes too)
EncodeChar(c) ==
    CASE c = " " -> "%20"
      [] c = "\n" -> "%0A"
      [] c = "/" -> "%2F"
      [] c = "%" -> "%25"
      [] c = "," -> "%2C"
      [] c = ":" -> "%3A"
      [] c = "K" -> "%K"
      [] c = "k" -> "%k"
      [] c = "B" -> "%B"
      [] c = "b" -> "%b"
      [] c = "v" -> "%v."
      [] c = "V" -> "%V."
      [] OTHER -> c

encode_point(point) == [i \in 1..Len(point) |-> EncodeChar(point[i])]

RECURSIVE Join(_, _)
Join(parts, sep) ==
    IF parts = <<>> THEN <<>>
    ELSE IF Len(parts) = 1 THEN Head(parts)
    ELSE Head(parts) \o <<sep>> \o Join(Tail(parts), sep)

UrlPrefix == <<"https://www.google.com/maps/dir/">>

build_maps_url(base, waypoints) ==
    LET points == <<base>> \o waypoints \o <<base>>
        encoded_points == [i \in 1..Len(points) |-> encode_point(points[i])]
    IN UrlPrefix \o Join(encoded_points, "/")

\* ------------------------------------------------------------------- store
\* routes: the rows of table routes in insertion order (the row id is the
\* index); settings: the rows of table settings.
\* BETWEEN with the upper end left out
Between_bad(x, lo, hi) == lo <= x /\ x < hi

\* x BETWEEN lo AND hi
Between(x, lo, hi) == lo <= x /\ x <= hi

RECURSIVE SumDistance(_)
SumDistance(rows) ==
    IF rows = <<>> THEN 0 ELSE Head(rows).distance_km + SumDistance(Tail(rows))

\* the query without the chat_id condition
sum_distance_for_period_bad(rows, chat_id, start_ts, end_ts) ==
    SumDistance(SelectSeq(rows, LAMBDA r : Between(r.msg_timestamp, start_ts, end_ts)))

\* SELECT COALESCE(SUM(distance_km), 0) FROM routes
\*  WHERE chat_id = ? AND msg_timestamp BETWEEN ? AND ?

sum_distance_for_period(rows, chat_id, start_ts, end_ts) ==
    SumDistance(SelectSeq(rows,
        LAMBDA r : r.chat_id = chat_id /\ Between(r.msg_timestamp, start_ts, end_ts)))

\* log_route without the distance_km <= 0 return
log_route_bad(rows, chat_id, msg_timestamp, distance_km, raw_text) ==
    Append(rows, [chat_id |-> chat_id, msg_timestamp |-> msg_timestamp,
                  distance_km |-> distance_km, raw_text |-> raw_text])

\* an insert that takes the place of the rows of the chat (INSERT OR REPLACE
\* on a key of chat_id)
log_route_replace(rows, chat_id, msg_timestamp, distance_km, raw_text) ==
    IF distance_km <= 0 THEN rows
    ELSE Append(SelectSeq(rows, LAMBDA r : r.chat_id # chat_id),
                [chat_id |-> chat_id, msg_timestamp |-> msg_timestamp,
                 distance_km |-> distance_km, raw_text |-> raw_text])

\* the table after log_route: nothing is inserted when distance_km <= 0
log_route(rows, chat_id, msg_timestamp, distance_km, raw_text) ==
    IF distance_km <= 0 THEN rows
    ELSE Append(rows, [chat_id |-> chat_id, msg_timestamp |-> msg_timestamp,
                       distance_km |-> distance_km, raw_text |-> raw_text])

\* an insert that keeps the row already there (ON CONFLICT DO NOTHING)
set_base_point_bad(table, chat_id, base_point) ==
    IF \E r \in table : r.chat_id = chat_id THEN table
    ELSE table \cup {[chat_id |-> chat_id, base_point |-> base_point]}

\* INSERT ... ON CONFLICT(chat_id) DO UPDATE SET base_point = excluded.base_point
set_base_point(table, chat_id, base_point) ==
    {r \in table : r.chat_id # chat_id}
        \cup {[chat_id |-> chat_id, base_point |-> base_point]}

\* SELECT base_point FROM settings WHERE chat_id = ?, else the default
get_base_point(table, chat_id) ==
    LET rows == {r \in table : r.chat_id = chat_id}
    IN IF rows # {} THEN (CHOOSE r \in rows : TRUE).base_point
       ELSE DEFAULT_BASE_POINT

\* ---------------------------------------------------------------- calendar
\* A date is its number of days since 1970-01-01 (a Thursday).
IsLeap(y) == (y % 4 = 0 /\ y % 100 # 0) \/ y % 400 = 0

DaysInMonth(y, m) ==
    CASE m \in {1, 3, 5, 7, 8, 10, 12} -> 31
      [] m \in {4, 6, 9, 11} -> 30
      [] OTHER -> IF IsLeap(y) THEN 29 ELSE 28

RECURSIVE DaysBefore(_, _)
\* days from 1969-01-01 to the first day of month m of year y >= 1969
DaysBefore(y, m) ==
    IF y = 1969 /\ m = 1 THEN 0
    ELSE IF m = 1 THEN DaysBefore(y - 1, 12) + 31
    ELSE DaysBefore(y, m - 1) + DaysInMonth(y, m - 1)

\* datetime.date(y, m, d)
date(y, m, d) == DaysBefore(y, m) + (d - 1) - 365

RECURSIVE FieldsFrom(_, _, _)
FieldsFrom(y, m, rest) ==
    IF rest >= DaysInMonth(y, m)
    THEN (IF m = 12 THEN FieldsFrom(y + 1, 1, rest - 31)
          ELSE FieldsFrom(y, m + 1, rest - DaysInMonth(y, m)))
    ELSE [year |-> y, month |-> m, day |-> rest + 1]

\* the .year, .month, .day of a date on or after 1969-01-01
DateFields(d) == FieldsFrom(1969, 1, d + 365)

\* date.weekday(): Monday is 0
weekday(d) == (d + 3) % 7

\* strftime('%d.%m.%Y')
FormatDate(d) == <<DateFields(d).day, DateFields(d).month, DateFields(d).year>>

\* datetime.strptime(word, "%Y-%m-%d").date(): -1 stands for ValueError
ParseDate(word) ==
    IF Len(word) # 1 THEN -1
    ELSE CASE word[1] = "D4" -> date(1970, 1, 5)
           [] word[1] = "D11" -> date(1970, 1, 12)
           [] word[1] = "D31" -> date(1970, 2, 1)
           [] OTHER -> -1

\* int(datetime(y, m, d, hh, mm, ss, tzinfo=utc).timestamp())
Timestamp(d, hh, mm, ss) == ((d * 24 + hh) * 60 + mm) * 60 + ss

\* the week-range function counting the previous week from today, not from
\* this week's Monday
get_last_week_range_bad(today) == <<today - 7, today - 1>>

get_last_week_range(today) ==
    LET this_monday == today - weekday(today)
        prev_monday == this_monday - 7
        prev_sunday == prev_monday + 6
    IN <<prev_monday, prev_sunday>>

get_this_week_range(today) ==
    LET this_monday == today - weekday(today)
    IN <<this_monday, today>>

get_last_month_range(today) ==
    LET first_this_month == date(DateFields(today).year, DateFields(today).month, 1)
        last_prev_month == first_this_month - 1
        first_prev_month ==
            date(DateFields(last_prev_month).year, DateFields(last_prev_month).month, 1)
    IN <<first_prev_month, last_prev_month>>

get_this_month_range(today) ==
    LET first_this_month == date(DateFields(today).year, DateFields(today).month, 1)
    IN <<first_this_month, today>>

\* the range taken to the first second of end_date
sum_for_date_range_bad(rows, chat_id, start_date, end_date) ==
    sum_distance_for_period(rows, chat_id,
        Timestamp(start_date, 0, 0, 0), Timestamp(end_date, 0, 0, 0))

\* the sum from 00:00:00 UTC of start_date to 23:59:59 UTC of end_date
sum_for_date_range(rows, chat_id, start_date, end_date) ==
    sum_distance_for_period(rows, chat_id,
        Timestamp(start_date, 0, 0, 0), Timestamp(end_date, 23, 59, 59))

\* ------------------------------------------------------- directions client
\* -1 km, the failure value of get_distance_km, in units of 0.1 km
FAILED == -10

RECURSIVE SumLegs(_)
SumLegs(legs) == IF legs = <<>> THEN 0 ELSE Head(legs) + SumLegs(Tail(legs))

\* round(meters / 1000.0, 1) in units of 0.1 km.  For meters % 100 = 50 the
\* binary value of meters / 1000.0 decides the direction; ProviderReplies
\* holds no such total.
RoundKm(meters) == (meters + 50) \div 100

\* What requests.get and the provider can do: raise, or answer with a body
\* that is not JSON, or with a JSON document {status, routes: [{legs}]}
\* (a leg is its distance.value in meters).
NoBody == [json |-> FALSE, status |-> "", routes |-> <<>>]

ProviderReplies ==
    {[raise |-> "ConnectionError", body |-> NoBody],
     [raise |-> "Timeout", body |-> NoBody],
     [raise |-> "", body |-> NoBody],
     [raise |-> "", body |-> [json |-> TRUE, status |-> "ZERO_RESULTS", routes |-> <<>>]],
     [raise |-> "", body |-> [json |-> TRUE, status |-> "OK", routes |-> <<>>]],
     [raise |-> "", body |-> [json |-> TRUE, status |-> "OK", routes |-> <<<<40>>>>]],
     [raise |-> "", body |-> [json |-> TRUE, status |-> "OK", routes |-> <<<<1240>>>>]],
     [raise |-> "", body |-> [json |-> TRUE, status |-> "OK", routes |-> <<<<700, 4760>>>>]]}

\* get_distance_km without the GOOGLE_API_KEY check
get_distance_km_bad(key, resp) ==
    IF resp.raise # "" THEN [exc |-> resp.raise, value |-> 0, requested |-> TRUE]
    ELSE IF ~resp.body.json
    THEN [exc |-> "JSONDecodeError", value |-> 0, requested |-> TRUE]
    ELSE IF resp.body.status # "OK"
    THEN [exc |-> "", value |-> FAILED, requested |-> TRUE]
    ELSE IF resp.body.routes = <<>>
    THEN [exc |-> "IndexError", value |-> 0, requested |-> TRUE]
    ELSE [exc |-> "", value |-> RoundKm(SumLegs(resp.body.routes[1])),
          requested |-> TRUE]

\* The outcome of get_distance_km: exc is the exception that leaves it ("" when
\* it returns), value what it returns, requested whether requests.get ran.
get_distance_km(key, resp) ==
    IF ~key THEN [exc |-> "", value |-> FAILED, requested |-> FALSE]
    ELSE IF resp.raise # "" THEN [exc |-> resp.raise, value |-> 0, requested |-> TRUE]
    ELSE IF ~resp.body.json
    THEN [exc |-> "JSONDecodeError", value |-> 0, requested |-> TRUE]
    ELSE IF resp.body.status # "OK"
    THEN [exc |-> "", value |-> FAILED, requested |-> TRUE]
    ELSE IF resp.body.routes = <<>>
    THEN [exc |-> "IndexError", value |-> 0, requested |-> TRUE]
    ELSE [exc |-> "", value |-> RoundKm(SumLegs(resp.body.routes[1])),
          requested |-> TRUE]

\* ------------------------------------------------------------------ inputs
Chats == {1, 2}

\* the worker threads that run handlers
Tasks == {1, 2}

\* message.date values: the first second of Monday 1970-01-05 and the last
\* second of Sunday 1970-01-11
Timestamps == {Timestamp(4, 0, 0, 0), Timestamp(10, 23, 59, 59)}

\* datetime.now(timezone.utc).date(): Monday 1970-01-12, the day after the
\* week that holds both Timestamps
Todays == {date(1970, 1, 12)}

\* texts without a leading "/": one without an address; one with a line of
\* noise and the same street-and-number line twice
RouteTexts ==
    {<<"a">>,
     <<"a", "\n", "v", " ", "1", "\n", "v", " ", "1">>}

CommandTexts ==
    {<<"/", "week">>,
     <<"/", "period", " ", "D4", " ", "D11">>,
     <<"/", "period", " ", "D11", " ", "D4">>,
     <<"/", "period", " ", "D4">>,
     <<"/", "period", " ", "a", " ", "D4">>,
     <<"/", "setbase", " ", "B">>,
     <<"/", "setbase", " ", "v", " ", "1">>,
     <<"/", "setbase", " ">>,
     <<"/", "report">>,
     <<"/", "foo", " ", "v", " ", "1">>}

CallbackData ==
    {<<"report", ":", "last_week">>, <<"report", ":", "this_week">>,
     <<"report", ":", "last_month">>, <<"report", ":", "this_month">>,
     <<"report", ":", "manual">>}

\* An update is a text message (text, date) or a button press (text is call.data).
Updates ==
    {[kind |-> "message", chat_id |-> c, text |-> x, date |-> d] :
        c \in Chats, x \in RouteTexts, d \in Timestamps}
    \cup {[kind |-> "message", chat_id |-> c, text |-> x, date |-> Timestamp(11, 0, 0, 0)] :
        c \in Chats, x \in CommandTexts}
    \cup {[kind |-> "callback", chat_id |-> c, text |-> x, date |-> Timestamp(11, 0, 0, 0)] :
        c \in Chats, x \in CallbackData}

NoUpdate == [kind |-> "none", chat_id |-> 0, text |-> <<>>, date |-> 0]

\* ---------------------------------------------------------------- dispatch
\* telebot: the command of a text message, <<>> when it is none
extract_command(text) ==
    IF text # <<>> /\ Head(text) = "/" THEN Tail(Words(text)[1]) ELSE <<>>

\* the first registered handler whose filter accepts the update
Handler(u) ==
    IF u.kind = "callback"
    THEN (IF Len(u.text) >= 2 /\ SubSeq(u.text, 1, 2) = <<"report", ":">>
          THEN "handle_report_callback" ELSE "")
    ELSE CASE extract_command(u.text) = <<"week">> -> "handle_week"
           [] extract_command(u.text) = <<"period">> -> "handle_period"
           [] extract_command(u.text) = <<"setbase">> -> "handle_set_base"
           [] extract_command(u.text) = <<"report">> -> "handle_report"
           [] OTHER -> "handle_message"

UpdatesFor(handler) == {u \in Updates : Handler(u) = handler}

WeekUpdates == UpdatesFor("handle_week")
PeriodUpdates == UpdatesFor("handle_period")
SetBaseUpdates == UpdatesFor("handle_set_base")
ReportUpdates == UpdatesFor("handle_report")
CallbackUpdates == UpdatesFor("handle_report_callback")
MessageUpdates == UpdatesFor("handle_message")

\* ------------------------------------------------------------------- state
VARIABLES
    routes,     \* table routes
    settings,   \* table settings
    api_key,    \* whether GOOGLE_API_KEY is set
    in_flight,  \* the bag of handle_message runs waiting for the provider
    finished,   \* the handler run that ended in the last step, NoRun otherwise
    last_set,   \* per chat: the base point of the last committed set_base_point
    probe       \* the call of a function under examination, NoProbe otherwise

vars == <<routes, settings, api_key, in_flight, finished, last_set, probe>>

\* the variables of the bot
bot_vars == <<routes, settings, api_key, in_flight, finished, last_set>>

NoProbe == [fn |-> "none"]

NoReply == [kind |-> "none"]

\* A handler run.  pc: "idle" (no run), "fetch" (handle_message waiting for
\* requests.get), "done" (the handler returned), "raised" (exception exc left
\* it).  calls lists the store, provider and transport calls it made, in order.
NoRun ==
    [pc |-> "idle", update |-> NoUpdate, addresses |-> <<>>, base |-> <<>>,
     maps_url |-> <<>>, distance |-> 0, exc |-> "", calls |-> <<>>,
     reply |-> NoReply]

Fresh(u) == [NoRun EXCEPT !.pc = "done", !.update = u]

Raised(run, e) == [run EXCEPT !.pc = "raised", !.exc = e]

NoBase == <<>>

Init ==
    /\ routes = <<>>
    /\ settings = {}
    /\ api_key \in BOOLEAN
    /\ in_flight = EmptyBag
    /\ finished = NoRun
    /\ last_set = [c \in Chats |-> NoBase]
    /\ probe = NoProbe

\* A handler runs on one of the worker threads, which are interchangeable: an
\* update is taken up while a thread is free.  No step is taken between the end
\* of a handler run and its return.
Accepts(u, handler) ==
    /\ finished = NoRun
    /\ BagCardinality(in_flight) < Cardinality(Tasks)
    /\ Handler(u) = handler

\* the handler run of an update returns to the dispatcher
handler_return ==
    /\ finished # NoRun
    /\ finished' = NoRun
    /\ UNCHANGED <<routes, settings, api_key, in_flight, last_set, probe>>

\* ---------------------------------------------------------------- handlers
\* In every handler a store call is one SQLite statement in its own
\* transaction: it takes effect atomically or raises sqlite3.Error (ok = FALSE).

ReportReply(label, range, total_km) ==
    [kind |-> "report", label |-> label, start |-> FormatDate(range[1]),
     end |-> FormatDate(range[2]), total_km |-> total_km]

\* /week
handle_week(u, today, ok) ==
    /\ Accepts(u, "handle_week")
    /\ LET range == get_last_week_range(today)
           total_km == sum_for_date_range(routes, u.chat_id, range[1], range[2])
           run == [Fresh(u) EXCEPT !.calls = <<"select_sum">>]
       IN finished' =
               IF ~ok THEN Raised(run, "sqlite3.Error")
               ELSE [run EXCEPT !.calls = <<"select_sum", "reply_to">>,
                                !.reply = ReportReply("last_week", range, total_km)]
    /\ UNCHANGED <<routes, settings, api_key, in_flight, last_set, probe>>

\* the argument checks without the end_date < start_date one
period_args_bad(text) ==
    LET parts == Words(Strip(text))
        start_date == ParseDate(parts[2])
        end_date == ParseDate(parts[3])
    IN IF Len(parts) # 3 THEN [error |-> "period_usage", start |-> 0, end |-> 0]
       ELSE IF start_date = -1 \/ end_date = -1
       THEN [error |-> "bad_date", start |-> 0, end |-> 0]
       ELSE [error |-> "", start |-> start_date, end |-> end_date]

\* handle_period up to the query: the reply that rejects the arguments
\* (error), or the two dates
period_args(text) ==
    LET parts == Words(Strip(text))
        start_date == ParseDate(parts[2])
        end_date == ParseDate(parts[3])
    IN IF Len(parts) # 3 THEN [error |-> "period_usage", start |-> 0, end |-> 0]
       ELSE IF start_date = -1 \/ end_date = -1
       THEN [error |-> "bad_date", start |-> 0, end |-> 0]
       ELSE IF end_date < start_date
       THEN [error |-> "end_before_start", start |-> 0, end |-> 0]
       ELSE [error |-> "", start |-> start_date, end |-> end_date]

\* /period YYYY-MM-DD YYYY-MM-DD
handle_period(u, ok) ==
    /\ Accepts(u, "handle_period")
    /\ LET args == period_args(u.text)
           run == Fresh(u)
           total_km == sum_for_date_range(routes, u.chat_id, args.start, args.end)
       IN finished' =
               IF args.error # ""
               THEN [run EXCEPT !.calls = <<"reply_to">>, !.reply = [kind |-> args.error]]
               ELSE IF ~ok
               THEN Raised([run EXCEPT !.calls = <<"select_sum">>], "sqlite3.Error")
               ELSE [run EXCEPT !.calls = <<"select_sum", "reply_to">>,
                                !.reply = ReportReply("period", <<args.start, args.end>>, total_km)]
    /\ UNCHANGED <<routes, settings, api_key, in_flight, last_set, probe>>

\* /setbase ADDRESS
handle_set_base(u, ok) ==
    /\ Accepts(u, "handle_set_base")
    /\ LET parts == SplitOnce(u.text, " ")
           run == Fresh(u)
           new_base == Strip(parts[2])
       IN IF Len(parts) < 2 \/ new_base = <<>>
          THEN /\ finished' =
                       [run EXCEPT !.calls = <<"reply_to">>, !.reply = [kind |-> "setbase_usage"]]
               /\ UNCHANGED <<settings, last_set>>
          ELSE IF ~ok
          THEN /\ finished' = Raised([run EXCEPT !.calls = <<"upsert">>], "sqlite3.Error")
               /\ UNCHANGED <<settings, last_set>>
          ELSE /\ settings' = set_base_point(settings, u.chat_id, new_base)
               /\ last_set' = [last_set EXCEPT ![u.chat_id] = new_base]
               /\ finished' =
                       [run EXCEPT !.calls = <<"upsert", "reply_to">>,
                                   !.reply = [kind |-> "base_set", base |-> new_base]]
    /\ UNCHANGED <<routes, api_key, in_flight, probe>>

\* /report
handle_report(u) ==
    /\ Accepts(u, "handle_report")
    /\ finished' =
           [Fresh(u) EXCEPT !.calls = <<"reply_to">>,
                            !.reply = [kind |-> "menu", buttons |-> CallbackData]]
    /\ UNCHANGED <<routes, settings, api_key, in_flight, last_set, probe>>

\* a button of the /report menu
handle_report_callback(u, today, ok) ==
    /\ Accepts(u, "handle_report_callback")
    /\ LET data == SplitOnce(u.text, ":")[2]
           run == Fresh(u)
           range == CASE data = <<"last_week">> -> get_last_week_range(today)
                      [] data = <<"this_week">> -> get_this_week_range(today)
                      [] data = <<"last_month">> -> get_last_month_range(today)
                      [] OTHER -> get_this_month_range(today)
           total_km == sum_for_date_range(routes, u.chat_id, range[1], range[2])
       IN finished' =
               IF data \in {<<"last_week">>, <<"this_week">>, <<"last_month">>, <<"this_month">>}
               THEN (IF ~ok
                     THEN Raised([run EXCEPT !.calls = <<"select_sum">>], "sqlite3.Error")
                     ELSE [run EXCEPT
                              !.calls = <<"select_sum", "answer_callback_query", "send_message">>,
                              !.reply = ReportReply(data[1], range, total_km)])
               ELSE IF data = <<"manual">>
               THEN [run EXCEPT !.calls = <<"answer_callback_query", "send_message">>,
                                !.reply = [kind |-> "period_usage"]]
               ELSE run
    /\ UNCHANGED <<routes, settings, api_key, in_flight, last_set, probe>>

\* rows the handle_message runs in flight may still insert
InFlight == BagCardinality(in_flight)

\* the early returns without the one for an empty address list
stays_silent_bad(text, addresses) == Head(text) = "/"

\* the early returns without the one for a leading "/"
stays_silent_any_text(text, addresses) == addresses = <<>>

\* handle_message returns at once for a command and for a text without addresses
stays_silent(text, addresses) == Head(text) = "/" \/ addresses = <<>>

\* handle_message up to build_maps_url; requests.get is then in flight
handle_message(u, ok) ==
    /\ Accepts(u, "handle_message")
    /\ LET addresses == extract_addresses(u.text)
           base == get_base_point(settings, u.chat_id)
           run == Fresh(u)
       IN IF stays_silent(u.text, addresses)
          THEN finished' = run /\ UNCHANGED in_flight
          ELSE /\ Len(routes) + InFlight < MaxRoutes
               /\ IF ~ok
                  THEN /\ finished' = Raised([run EXCEPT !.addresses = addresses,
                                                  !.calls = <<"get_base_point">>],
                                             "sqlite3.Error")
                       /\ UNCHANGED in_flight
                  ELSE /\ in_flight' = in_flight (+) SetToBag({
                              [run EXCEPT !.pc = "fetch", !.addresses = addresses,
                                          !.base = base, !.calls = <<"get_base_point">>,
                                          !.maps_url = build_maps_url(base, addresses)]})
                       /\ UNCHANGED finished
    /\ UNCHANGED <<routes, settings, api_key, last_set, probe>>

\* the distance line shown for every distance that is not negative
RouteReply_bad(run, distance) ==
    [kind |-> "route", base |-> run.base, addresses |-> run.addresses,
     maps_url |-> run.maps_url, has_distance |-> distance >= 0,
     distance |-> IF distance >= 0 THEN distance ELSE 0]

\* the reply of handle_message: the distance line when distance_km > 0, the
\* could-not-compute line otherwise
RouteReply(run, distance) ==
    [kind |-> "route", base |-> run.base, addresses |-> run.addresses,
     maps_url |-> run.maps_url, has_distance |-> distance > 0,
     distance |-> IF distance > 0 THEN distance ELSE 0]

\* handle_message replying although the insert of log_route failed
handle_message_finish_bad(waiting, resp, ok) ==
    /\ finished = NoRun
    /\ BagIn(waiting, in_flight)
    /\ LET u == waiting.update
           got == get_distance_km(api_key, resp)
           run == [waiting EXCEPT
                      !.calls = IF got.requested THEN Append(@, "requests.get") ELSE @]
           after == log_route(routes, u.chat_id, u.date, got.value, u.text)
           logged == [run EXCEPT !.distance = got.value,
                                 !.calls = IF after # routes THEN Append(@, "insert") ELSE @]
       IN IF got.exc # ""
          THEN finished' = Raised(run, got.exc) /\ UNCHANGED routes
          ELSE /\ routes' = IF ok THEN after ELSE routes
               /\ finished' = [logged EXCEPT !.pc = "done",
                                             !.calls = Append(@, "reply_to"),
                                             !.reply = RouteReply(run, got.value)]
    /\ in_flight' = in_flight (-) SetToBag({waiting})
    /\ UNCHANGED <<settings, api_key, last_set, probe>>

\* handle_message from the outcome of get_distance_km on: log_route and the reply
handle_message_finish(waiting, resp, ok) ==
    /\ finished = NoRun
    /\ BagIn(waiting, in_flight)
    /\ LET u == waiting.update
           got == get_distance_km(api_key, resp)
           run == [waiting EXCEPT
                      !.calls = IF got.requested THEN Append(@, "requests.get") ELSE @]
           after == log_route(routes, u.chat_id, u.date, got.value, u.text)
           logged == [run EXCEPT !.distance = got.value,
                                 !.calls = IF after # routes THEN Append(@, "insert") ELSE @]
       IN IF got.exc # ""
          THEN finished' = Raised(run, got.exc) /\ UNCHANGED routes
          ELSE IF after # routes /\ ~ok
          THEN finished' = Raised(logged, "sqlite3.Error") /\ UNCHANGED routes
          ELSE /\ routes' = after
               /\ finished' = [logged EXCEPT !.pc = "done",
                                             !.calls = Append(@, "reply_to"),
                                             !.reply = RouteReply(run, got.value)]
    /\ in_flight' = in_flight (-) SetToBag({waiting})
    /\ UNCHANGED <<settings, api_key, last_set, probe>>

Next ==
    \/ handler_return
    \/ \E u \in WeekUpdates, today \in Todays, ok \in BOOLEAN : handle_week(u, today, ok)
    \/ \E u \in PeriodUpdates, ok \in BOOLEAN : handle_period(u, ok)
    \/ \E u \in SetBaseUpdates, ok \in BOOLEAN : handle_set_base(u, ok)
    \/ \E u \in ReportUpdates : handle_report(u)
    \/ \E u \in CallbackUpdates, today \in Todays, ok \in BOOLEAN :
           handle_report_callback(u, today, ok)
    \/ \E u \in MessageUpdates, ok \in BOOLEAN : handle_message(u, ok)
    \/ \E waiting \in BagToSet(in_flight), resp \in ProviderReplies, ok \in BOOLEAN :
           handle_message_finish(waiting, resp, ok)

Spec == Init /\ [][Next]_vars

\* ------------------------------------------------------------------ claims
Made(run, call) == \E i \in 1..Len(run.calls) : run.calls[i] = call

\* a handle_message run on a text with at least one address
RouteRun(run) ==
    /\ run.pc \in {"done", "raised"}
    /\ Handler(run.update) = "handle_message"
    /\ Head(run.update.text) # "/"
    /\ extract_addresses(run.update.text) # <<>>

\* window ends around the message timestamps
WindowBounds == UNION {{ts - 1, ts, ts + 1} : ts \in Timestamps}

FirstTs == Timestamp(4, 0, 0, 0)
LastTs == Timestamp(10, 23, 59, 59)

\* C1: every row of table routes has a distance greater than 0; neither 0 nor
\* the failure value -1 km is ever stored.
C1_StoredDistancePositive ==
    \A i \in 1..Len(routes) : routes[i].distance_km > 0

\* a run whose distance rounded to 0 km has replied, and the table holds a row
C1_Witness ==
    /\ RouteRun(finished) /\ finished.pc = "done"
    /\ Made(finished, "requests.get") /\ finished.distance = 0
    /\ routes # <<>>

\* C2: get_distance_km never raises: no handler run ends by an exception other
\* than the store's, so none that left get_distance_km.
C2_GetDistanceNeverRaises ==
    finished.pc = "raised" => finished.exc = "sqlite3.Error"

\* C3: a handle_message run on a text with an address that ended, other than by
\* a store failure, has sent the route reply (address list, route reference, and
\* the distance or the could-not-compute line).
C3_AddressMessageReplied ==
    (RouteRun(finished) /\ finished.exc # "sqlite3.Error")
        => /\ finished.reply.kind = "route"
           /\ Made(finished, "reply_to")

\* C4: without GOOGLE_API_KEY a handle_message run that reaches get_distance_km
\* gets -1 without requests.get being called, replies with the
\* could-not-compute line, and its steps leave table routes as it was.
C4_NoKeyStep ==
    (~api_key /\ RouteRun(finished') /\ finished'.exc = "")
        => /\ finished'.distance = FAILED
           /\ ~Made(finished', "requests.get")
           /\ finished'.reply.kind = "route"
           /\ ~finished'.reply.has_distance
           /\ Made(finished', "reply_to")
           /\ routes' = routes

C4_NoKeyNoCallNoRecord == [][C4_NoKeyStep]_vars

C4_Witness ==
    ~api_key /\ RouteRun(finished) /\ finished.reply.kind = "route"

\* C5: a handle_message run on a text that is no command and yields no address
\* sends no reply, makes no store or provider call (so reads no base point),
\* and leaves both tables as they were.
C5_SilentStep ==
    (/\ finished'.pc # "idle"
     /\ Handler(finished'.update) = "handle_message"
     /\ Head(finished'.update.text) # "/"
     /\ extract_addresses(finished'.update.text) = <<>>)
        => /\ finished'.pc = "done"
           /\ finished'.reply = NoReply
           /\ finished'.calls = <<>>
           /\ finished'.base = <<>>
           /\ routes' = routes
           /\ settings' = settings

C5_NoAddressSilent == [][C5_SilentStep]_vars

C5_Witness ==
    /\ finished.pc = "done" /\ finished.update.text = <<"a">>
    /\ routes # <<>> /\ settings # {}

\* C6: a step of a handler run for chat B (an insert of log_route, a
\* set_base_point) leaves sum_distance_for_period of every other chat A
\* unchanged, for every window.
C6_OtherChatStep ==
    \A a \in Chats :
        (/\ finished'.pc # "idle"
         /\ finished'.update.chat_id # a
         /\ (routes' # routes \/ settings' # settings))
            => \A s, e \in WindowBounds :
                   sum_distance_for_period(routes', a, s, e)
                       = sum_distance_for_period(routes, a, s, e)

C6_ConversationIsolation == [][C6_OtherChatStep]_vars

\* a run for one chat inserted while a run for the other chat, whose row is in
\* the table, was followed
C6_Witness ==
    /\ Len(routes) = 2
    /\ routes[1].chat_id # routes[2].chat_id
    /\ Made(finished, "insert")
    /\ finished.update.chat_id = routes[2].chat_id

RECURSIVE SumOver(_, _)
\* the sum of distance_km over the rows with the ids in ids
SumOver(rows, ids) ==
    IF ids = {} THEN 0
    ELSE LET i == CHOOSE j \in ids : TRUE
         IN rows[i].distance_km + SumOver(rows, ids \ {i})

Matching(rows, c, s, e) ==
    {i \in 1..Len(rows) :
        rows[i].chat_id = c /\ s <= rows[i].msg_timestamp /\ rows[i].msg_timestamp <= e}

\* C7: sum_distance_for_period(chat, start, end) is 0 when no row matches, and
\* else the sum of distance_km over exactly the rows of that chat with
\* start <= timestamp <= end, both ends included.
C7_RangeSumExact ==
    finished = NoRun =>
        \A c \in Chats : \A s, e \in WindowBounds :
            /\ sum_distance_for_period(routes, c, s, e) = SumOver(routes, Matching(routes, c, s, e))
            /\ Matching(routes, c, s, e) = {}
                   => sum_distance_for_period(routes, c, s, e) = 0

\* two rows of one chat, one at each end of the window, both counted
C7_Witness ==
    /\ finished = NoRun
    /\ Len(routes) = 2
    /\ routes[1].chat_id = routes[2].chat_id
    /\ routes[1].msg_timestamp = LastTs /\ routes[2].msg_timestamp = FirstTs
    /\ sum_distance_for_period(routes, routes[1].chat_id, FirstTs, LastTs)
           = routes[1].distance_km + routes[2].distance_km

\* window ends for the widening check
WideningBounds == {FirstTs - 1, FirstTs, LastTs, LastTs + 1}

\* C8: the range sum does not decrease as the window widens: for s2 <= s1 and
\* e1 <= e2 the sum over [s2, e2] is at least the sum over [s1, e1].
C8_RangeSumMonotone ==
    finished = NoRun =>
        \A c \in Chats : \A s1, e1, s2, e2 \in WideningBounds :
            (s2 <= s1 /\ e1 <= e2)
                => sum_distance_for_period(routes, c, s2, e2)
                       >= sum_distance_for_period(routes, c, s1, e1)

\* a wider window that takes in one more row gives a greater sum
C8_Witness ==
    /\ finished = NoRun
    /\ \E c \in Chats :
           /\ sum_distance_for_period(routes, c, FirstTs, FirstTs) > 0
           /\ sum_distance_for_period(routes, c, FirstTs, LastTs)
                  > sum_distance_for_period(routes, c, FirstTs, FirstTs)

\* C9: table settings holds at most one row per chat, and get_base_point(c) is
\* the base point of the last committed set_base_point for c, or the default
\* when there was none.
C9_BasePointLastWriteWins ==
    \A c \in Chats :
        /\ Cardinality({r \in settings : r.chat_id = c}) <= 1
        /\ get_base_point(settings, c)
               = IF last_set[c] = NoBase THEN DEFAULT_BASE_POINT ELSE last_set[c]

\* a /setbase committed over the base point that a run still in flight for the
\* same chat had read
C9_Witness ==
    /\ finished.reply.kind = "base_set"
    /\ \E waiting \in BagToSet(in_flight) :
           /\ waiting.update.chat_id = finished.update.chat_id
           /\ waiting.base \notin {DEFAULT_BASE_POINT, finished.reply.base}

\* C10: /period with two valid dates, the second earlier than the first, is
\* answered with the error reply and nothing else: no query, no store call.
C10_InvertedPeriodRejected ==
    (/\ finished.pc # "idle"
     /\ Handler(finished.update) = "handle_period"
     /\ Len(Words(Strip(finished.update.text))) = 3
     /\ ParseDate(Words(Strip(finished.update.text))[2]) # -1
     /\ ParseDate(Words(Strip(finished.update.text))[3]) # -1
     /\ ParseDate(Words(Strip(finished.update.text))[3])
            < ParseDate(Words(Strip(finished.update.text))[2]))
        => /\ finished.pc = "done"
           /\ finished.reply = [kind |-> "end_before_start"]
           /\ finished.calls = <<"reply_to">>

C10_Witness ==
    /\ finished.reply.kind = "end_before_start"
    /\ routes # <<>>

\* ================================================= function-level checks
\* The specifications below examine one function at a time: Init draws its
\* arguments, an action applies it and keeps the result in probe.  The bot
\* itself is at rest throughout.
BotAtRest ==
    /\ routes = <<>>
    /\ settings = {}
    /\ api_key = TRUE
    /\ in_flight = EmptyBag
    /\ finished = NoRun
    /\ last_set = [c \in Chats |-> NoBase]

\* ------------------------------------------------------------- date ranges
\* Latest reference date examined, in days since 1970-01-01: the dates run
\* from 1970-01-01 over two turns of the year and the leap day 1972-02-29.
MaxDay == 800

Days == 0..MaxDay

DatesInit ==
    /\ BotAtRest
    /\ probe \in {[fn |-> "date_ranges", today |-> t, last_week |-> <<>>,
                   this_week |-> <<>>, last_month |-> <<>>, this_month |-> <<>>] :
                     t \in Days}

\* One call of a range function on the day datetime.now(timezone.utc).date()
\* gives.
last_week_call ==
    /\ probe.last_week = <<>>
    /\ probe' = [probe EXCEPT !.last_week = get_last_week_range(probe.today)]
    /\ UNCHANGED bot_vars

this_week_call ==
    /\ probe.this_week = <<>>
    /\ probe' = [probe EXCEPT !.this_week = get_this_week_range(probe.today)]
    /\ UNCHANGED bot_vars

last_month_call ==
    /\ probe.last_month = <<>>
    /\ probe' = [probe EXCEPT !.last_month = get_last_month_range(probe.today)]
    /\ UNCHANGED bot_vars

this_month_call ==
    /\ probe.this_month = <<>>
    /\ probe' = [probe EXCEPT !.this_month = get_this_month_range(probe.today)]
    /\ UNCHANGED bot_vars

DatesNext == last_week_call \/ this_week_call \/ last_month_call \/ this_month_call

SpecDates == DatesInit /\ [][DatesNext]_vars

\* 1970-01-05, day 4, was a Monday
IsMonday(d) == (d - 4) % 7 = 0

SameMonth(a, b) ==
    DateFields(a).year = DateFields(b).year /\ DateFields(a).month = DateFields(b).month

\* C11: for every reference date today, last-week is (Monday, Sunday) of the
\* week before today's, its end six days after its start and the day before
\* the Monday of today's week; this-week is (Monday of today's week, today);
\* last-month is (day 1, last day) of the calendar month before today's, its
\* end the day before day 1 of today's month; this-month is (day 1 of today's
\* month, today).  In all four the start is not after the end.
C11_DateRanges ==
    probe.fn = "date_ranges" =>
        /\ probe.last_week # <<>> =>
               LET s == probe.last_week[1]
                   e == probe.last_week[2]
               IN /\ IsMonday(s) /\ e = s + 6
                  /\ IsMonday(e + 1) /\ e + 1 <= probe.today /\ probe.today <= e + 7
                  /\ s <= e
        /\ probe.this_week # <<>> =>
               LET s == probe.this_week[1]
                   e == probe.this_week[2]
               IN /\ IsMonday(s) /\ s <= probe.today /\ probe.today <= s + 6
                  /\ e = probe.today
                  /\ s <= e
        /\ probe.last_month # <<>> =>
               LET s == probe.last_month[1]
                   e == probe.last_month[2]
               IN /\ DateFields(s).day = 1 /\ SameMonth(s, e)
                  /\ DateFields(e + 1).day = 1 /\ SameMonth(e + 1, probe.today)
                  /\ s <= e
        /\ probe.this_month # <<>> =>
               LET s == probe.this_month[1]
                   e == probe.this_month[2]
               IN /\ DateFields(s).day = 1 /\ SameMonth(s, probe.today)
                  /\ e = probe.today
                  /\ s <= e

\* all four ranges computed on Sunday 1972-03-05: last month is the leap
\* February, last week lies across the turn of the month
C11_Witness ==
    /\ probe.fn = "date_ranges"
    /\ probe.today = date(1972, 3, 5)
    /\ probe.last_week = <<date(1972, 2, 21), date(1972, 2, 27)>>
    /\ probe.this_week = <<date(1972, 2, 28), date(1972, 3, 5)>>
    /\ probe.last_month = <<date(1972, 2, 1), date(1972, 2, 29)>>
    /\ probe.this_month = <<date(1972, 3, 1), date(1972, 3, 5)>>

\* --------------------------------------------------------- date-range sums
\* message.date values at the first and the last second of the UTC days
\* 1970-01-04 .. 1970-01-07
RangeStamps ==
    {Timestamp(d, 0, 0, 0) : d \in 3..6} \cup {Timestamp(d, 23, 59, 59) : d \in 3..6}

\* the dates a range starts or ends on: 1970-01-05 and 1970-01-06
RangeDates == {4, 5}

\* distances in units of 0.1 km
RangeDistances == {12, 47}

RangeInit ==
    /\ BotAtRest
    /\ probe = [fn |-> "sum_for_date_range", called |-> FALSE, chat_id |-> 0,
                start_date |-> 0, end_date |-> 0, total |-> 0]

\* log_route commits a row, as handle_message calls it
range_log_route(chat_id, msg_timestamp, distance_km) ==
    /\ ~probe.called
    /\ Len(routes) < MaxRoutes
    /\ routes' = log_route(routes, chat_id, msg_timestamp, distance_km, <<"K">>)
    /\ UNCHANGED <<settings, api_key, in_flight, finished, last_set, probe>>

\* one call of sum_for_date_range on the table as it stands
range_sum_call(chat_id, start_date, end_date) ==
    /\ ~probe.called
    /\ probe' = [probe EXCEPT !.called = TRUE, !.chat_id = chat_id,
                              !.start_date = start_date, !.end_date = end_date,
                              !.total = sum_for_date_range(routes, chat_id,
                                                           start_date, end_date)]
    /\ UNCHANGED bot_vars

RangeNext ==
    \/ \E c \in Chats, ts \in RangeStamps, km \in RangeDistances :
           range_log_route(c, ts, km)
    \/ \E c \in Chats, s \in RangeDates, e \in RangeDates : range_sum_call(c, s, e)

SpecRange == RangeInit /\ [][RangeNext]_vars

\* the UTC calendar date of a timestamp in whole seconds
UtcDate(ts) == ts \div 86400

\* C12: sum_for_date_range(chat, startDate, endDate) counts a record exactly
\* when it belongs to the chat and the UTC calendar date of its timestamp lies
\* in [startDate, endDate]: a record at 23:59:59 of endDate is counted, one at
\* 00:00:00 of the following day is not.
C12_DateRangeSum ==
    (probe.fn = "sum_for_date_range" /\ probe.called) =>
        probe.total =
            SumOver(routes,
                    {i \in 1..Len(routes) :
                        /\ routes[i].chat_id = probe.chat_id
                        /\ probe.start_date <= UtcDate(routes[i].msg_timestamp)
                        /\ UtcDate(routes[i].msg_timestamp) <= probe.end_date})

\* a chat with one record in the last second of endDate and one in the first
\* second of the day after: the sum is the first record's distance
C12_Witness ==
    /\ probe.fn = "sum_for_date_range" /\ probe.called
    /\ probe.start_date = 4 /\ probe.end_date = 5
    /\ Len(routes) = 2
    /\ routes[1].chat_id = probe.chat_id /\ routes[2].chat_id = probe.chat_id
    /\ routes[1].msg_timestamp = Timestamp(5, 23, 59, 59)
    /\ routes[2].msg_timestamp = Timestamp(6, 0, 0, 0)
    /\ probe.total = routes[1].distance_km

\* ------------------------------------------------------ address extraction
\* Largest number of lines of an examined text.
MaxLines == 3

\* The lines texts are made of: noise, an empty line, a city alone, text
\* before a city, street and number without a city, the same with the default
\* city written out, the same untrimmed, a street without a number, a city in
\* lower case after other text, a city named twice.
LinePool ==
    {<<"a">>,
     <<>>,
     <<"K">>,
     <<"a", " ", "K">>,
     <<"v", " ", "1">>,
     <<"v", " ", "1", ",", " ", "K">>,
     <<" ", "v", " ", "1", " ">>,
     <<"v">>,
     <<"a", " ", "b", " ", "1">>,
     <<"K", " ", "a", " ", "K">>}

\* message.text: up to MaxLines lines joined by "\n"
ExtractTexts ==
    UNION {{Join(ls, "\n") : ls \in [1..n -> LinePool]} : n \in 1..MaxLines}

ExtractInit ==
    /\ BotAtRest
    /\ probe \in {[fn |-> "extract_addresses", text |-> x, called |-> FALSE,
                   result |-> <<>>] : x \in ExtractTexts}

\* one call of extract_addresses
extract_call ==
    /\ ~probe.called
    /\ probe' = [probe EXCEPT !.called = TRUE, !.result = extract_addresses(probe.text)]
    /\ UNCHANGED bot_vars

ExtractNext == extract_call

SpecExtract == ExtractInit /\ [][ExtractNext]_vars

\* the address of each qualifying line of a text, in line order, one per line
PerLine(text) ==
    LET kept == SelectSeq(TextLines(text), Qualifies)
    IN [i \in 1..Len(kept) |-> LineAddress(kept[i])]

\* the position of the first line of the text that gives address a
FirstLineOf(text, a) ==
    CHOOSE k \in 1..Len(PerLine(text)) :
        /\ PerLine(text)[k] = a
        /\ \A j \in 1..(k - 1) : PerLine(text)[j] # a

\* C13: for every input text the result of extract_addresses holds no two
\* equal strings, holds exactly the addresses of the qualifying lines, and holds
\* them in the order of their first occurrence in the input lines.
C13_DedupKeepsFirstOrder ==
    (probe.fn = "extract_addresses" /\ probe.called) =>
        LET out == probe.result
            per == PerLine(probe.text)
        IN /\ \A i, j \in 1..Len(out) : i # j => out[i] # out[j]
           /\ {out[i] : i \in 1..Len(out)} = {per[k] : k \in 1..Len(per)}
           /\ \A i, j \in 1..Len(out) :
                  i < j => FirstLineOf(probe.text, out[i]) < FirstLineOf(probe.text, out[j])

\* an address given by the first and the third line with another one between
\* them: the result holds the two addresses, the repeated one first
C13_Witness ==
    /\ probe.fn = "extract_addresses" /\ probe.called
    /\ Len(PerLine(probe.text)) = 3
    /\ PerLine(probe.text)[1] = PerLine(probe.text)[3]
    /\ PerLine(probe.text)[1] # PerLine(probe.text)[2]
    /\ probe.result = <<PerLine(probe.text)[1], PerLine(probe.text)[2]>>

\* the trimmed lines of a text that qualify as address lines
QualifyingLines(text) ==
    LET raw == SplitOn(text, "\n")
    IN {l \in {Strip(raw[i]) : i \in 1..Len(raw)} : Qualifies(l)}

\* the position of the first city token of a line that has one
FirstCityAt(line) ==
    CHOOSE i \in 1..Len(line) :
        /\ \E city \in CITY_HINTS : Lower(line[i]) = Lower(city)
        /\ \A j \in 1..(i - 1) : \A city \in CITY_HINTS : Lower(line[j]) # Lower(city)

\* C14 as claimed: a qualifying line with a city token gives the text from its
\* first city token to the end of the line, a qualifying line without one the
\* full trimmed line with the default city suffix.
C14_FromFirstCityToken ==
    (probe.fn = "extract_addresses" /\ probe.called) =>
        {probe.result[i] : i \in 1..Len(probe.result)}
            = {IF HasCity(l) THEN SubSeq(l, FirstCityAt(l), Len(l))
               ELSE l \o DefaultCitySuffix : l \in QualifyingLines(probe.text)}

\* C14, amended: a qualifying line with a city token gives the full trimmed
\* line, the text before the city token included; a qualifying line without
\* one gives the full trimmed line with the default city suffix.
C14_WholeLineKept ==
    (probe.fn = "extract_addresses" /\ probe.called) =>
        {probe.result[i] : i \in 1..Len(probe.result)}
            = {IF HasCity(l) THEN l ELSE l \o DefaultCitySuffix :
                   l \in QualifyingLines(probe.text)}

\* a text with a line that has text before its city token and a street line
\* without a city: the first is kept whole, the second gets the suffix
C14_Witness ==
    /\ probe.fn = "extract_addresses" /\ probe.called
    /\ <<"a", " ", "K">> \in QualifyingLines(probe.text)
    /\ <<"v", " ", "1">> \in QualifyingLines(probe.text)
    /\ probe.result = <<<<"a", " ", "K">>, <<"v", " ", "1", ",", " ", "K">>>>

\* ------------------------------------------------------------ URL building
\* Largest number of characters of an examined point.
MaxPointLen == 1

\* Largest number of waypoints of an examined route.
MaxWaypoints == 2

\* the characters points are made of: a non-ASCII letter, a space, the
\* separator of the path, the escape character
PointChars == {"K", " ", "/", "%"}

Points == UNION {[1..n -> PointChars] : n \in 0..MaxPointLen}

UrlInit ==
    /\ BotAtRest
    /\ probe \in {[fn |-> "build_maps_url", base |-> b, waypoints |-> w,
                   called |-> FALSE, result |-> <<>>] :
                     b \in Points, w \in UNION {[1..n -> Points] : n \in 0..MaxWaypoints}}

\* one call of build_maps_url
url_call ==
    /\ ~probe.called
    /\ probe' = [probe EXCEPT !.called = TRUE,
                              !.result = build_maps_url(probe.base, probe.waypoints)]
    /\ UNCHANGED bot_vars

UrlNext == url_call

SpecUrl == UrlInit /\ [][UrlNext]_vars

\* urllib.parse.unquote on one symbol of an encoded point
DecodeChar(t) ==
    CASE t = "%20" -> " "
      [] t = "%0A" -> "\n"
      [] t = "%2F" -> "/"
      [] t = "%25" -> "%"
      [] t = "%2C" -> ","
      [] t = "%3A" -> ":"
      [] t = "%K" -> "K"
      [] t = "%k" -> "k"
      [] t = "%B" -> "B"
      [] t = "%b" -> "b"
      [] t = "%v." -> "v"
      [] t = "%V." -> "V"
      [] OTHER -> t

\* C15: the URL of build_maps_url(base, waypoints) is the fixed prefix and a
\* path of len(waypoints) + 2 segments; no encoded point holds a literal space
\* or an unescaped "/"; splitting the path on "/" and percent-decoding each
\* segment gives back base, the waypoints in order, base.
C15_UrlRoundTrip ==
    (probe.fn = "build_maps_url" /\ probe.called) =>
        LET url == probe.result
            path == SubSeq(url, Len(UrlPrefix) + 1, Len(url))
            segments == SplitOn(path, "/")
        IN /\ SubSeq(url, 1, Len(UrlPrefix)) = UrlPrefix
           /\ Len(segments) = Len(probe.waypoints) + 2
           /\ \A k \in 1..Len(path) : path[k] # " "
           /\ [i \in 1..Len(segments) |->
                  [k \in 1..Len(segments[i]) |-> DecodeChar(segments[i][k])]]
                  = <<probe.base>> \o probe.waypoints \o <<probe.base>>

\* a base that is a slash, with a space and a percent sign as waypoints
C15_Witness ==
    /\ probe.fn = "build_maps_url" /\ probe.called
    /\ probe.base = <<"/">>
    /\ probe.waypoints = <<<<" ">>, <<"%">>>>
    /\ probe.result = UrlPrefix \o <<"%2F", "/", "%20", "/", "%25", "/", "%2F">>

\* ----------------------------------------------------- claims, continued
\* the handlers that only read the routes table
ReportHandlers == {"handle_week", "handle_period", "handle_report_callback"}

\* C16: when the store fails during a report (/week, /period, a button of the
\* period menu), the handler recovers within the request and sends a generic
\* try-again message; the storage error does not leave the handler.
C16_ReportStoreFailureRecovered ==
    (finished.pc # "idle" /\ Handler(finished.update) \in ReportHandlers) =>
        /\ finished.pc = "done"
        /\ Made(finished, "select_sum") => finished.reply.kind \in {"report", "try_again"}

\* the place of the first call of that name in the calls of a run, 0 for none
CallAt(run, call) ==
    IF Made(run, call)
    THEN CHOOSE i \in 1..Len(run.calls) :
             run.calls[i] = call /\ \A j \in 1..(i - 1) : run.calls[j] # call
    ELSE 0

\* the row log_route writes for the message of a run
RecordOf(run) ==
    [chat_id |-> run.update.chat_id, msg_timestamp |-> run.update.date,
     distance_km |-> run.distance, raw_text |-> run.update.text]

\* C17: in a pipeline run whose distance is greater than 0, the record is
\* written after the distance is known and before the reply is sent: a run that
\* replied had asked the provider, then inserted, then replied, and its record
\* is the last row of the table; a run whose insert failed sent no reply.
C17_PersistBeforeReply ==
    (RouteRun(finished) /\ finished.distance > 0) =>
        /\ Made(finished, "reply_to") =>
               /\ 0 < CallAt(finished, "requests.get")
               /\ CallAt(finished, "requests.get") < CallAt(finished, "insert")
               /\ CallAt(finished, "insert") < CallAt(finished, "reply_to")
               /\ routes # <<>> /\ routes[Len(routes)] = RecordOf(finished)
        /\ finished.pc = "raised" =>
               /\ finished.exc = "sqlite3.Error"
               /\ ~Made(finished, "reply_to") /\ finished.reply = NoReply

\* a run with a distance greater than 0 whose insert failed, after an earlier
\* run had logged a row
C17_Witness ==
    /\ RouteRun(finished) /\ finished.distance > 0
    /\ finished.pc = "raised" /\ finished.exc = "sqlite3.Error"
    /\ Made(finished, "insert")
    /\ Len(routes) = 1

IsCommand(text) == text # <<>> /\ Head(text) = "/"

\* C18: a message whose text starts with "/" (a known command, an unknown one,
\* a command with address-like arguments) never goes through address
\* extraction: no run for it waits for the provider, its run extracted nothing,
\* asked no distance and inserted no row, and no row holds such a text.
C18_CommandsBypassPipeline ==
    /\ \A waiting \in BagToSet(in_flight) : ~IsCommand(waiting.update.text)
    /\ \A i \in 1..Len(routes) : ~IsCommand(routes[i].raw_text)
    /\ (finished.pc # "idle" /\ finished.update.kind = "message"
            /\ IsCommand(finished.update.text)) =>
           /\ finished.addresses = <<>> /\ finished.maps_url = <<>>
           /\ ~Made(finished, "get_base_point")
           /\ ~Made(finished, "requests.get")
           /\ ~Made(finished, "insert")

\* the unknown command /foo with a street and a number has been through
\* handle_message while another run waits for the provider
C18_Witness ==
    /\ finished.pc = "done"
    /\ Handler(finished.update) = "handle_message"
    /\ finished.update.text = <<"/", "foo", " ", "v", " ", "1">>
    /\ in_flight # EmptyBag

C19_AppendStep ==
    \/ routes' = routes
    \/ /\ Len(routes') = Len(routes) + 1
       /\ SubSeq(routes', 1, Len(routes)) = routes
       /\ RouteRun(finished') /\ finished'.distance > 0
       /\ routes'[Len(routes')] = RecordOf(finished')

\* C19: table routes is append-only: across every step every row present before
\* is present afterwards, unchanged and at its place; the only step that changes
\* the table is a route message with a distance greater than 0, which adds
\* exactly one row with that message's chat id, timestamp, distance and text.
C19_RoutesAppendOnly == [][C19_AppendStep]_vars

\* a run has just added the second row of the table
C19_Witness ==
    /\ Len(routes) = 2
    /\ finished.pc = "done" /\ Made(finished, "insert")
    /\ routes[2] = RecordOf(finished)
    /\ routes[1] # routes[2]

\* C20: for every completed pipeline run on a message with addresses, the reply
\* shows a distance exactly when a row was inserted for that message, and the
\* distance shown is the distance_km stored; a provider total of 0 km gives the
\* reply without a distance and no row.
C20_ReplyMatchesRecord ==
    (RouteRun(finished) /\ finished.pc = "done") =>
        /\ finished.reply.kind = "route"
        /\ finished.reply.has_distance <=> Made(finished, "insert")
        /\ Made(finished, "insert") =>
               /\ routes # <<>>
               /\ routes[Len(routes)].chat_id = finished.update.chat_id
               /\ routes[Len(routes)].msg_timestamp = finished.update.date
               /\ routes[Len(routes)].raw_text = finished.update.text
               /\ routes[Len(routes)].distance_km = finished.reply.distance
        /\ (Made(finished, "requests.get") /\ finished.distance = 0) =>
               ~finished.reply.has_distance /\ ~Made(finished, "insert")

\* a completed run over two legs of 700 m and 4760 m: the reply shows 5.5 km
\* and the last row holds 5.5 km
C20_Witness ==
    /\ RouteRun(finished) /\ finished.pc = "done"
    /\ finished.reply.has_distance /\ finished.reply.distance = 55
    /\ routes[Len(routes)].distance_km = 55

====
